---- MODULE Spec2Model ----
(***************************************************************************)
(* Checkpointed batch processing of merge-conflict work items:             *)
(*   experiment/conflict_resolution_generator.py  process_dataframe        *)
(*   experiment/utils.py        add_row_to_dataframe, handle_error         *)
(*   experiment/prompt.py       create_prompt                              *)
(*   experiment/main.py         save_checkpoint, save_results,             *)
(*                              process_data, main                         *)
(* Indices are the 0-based Python indices; df.iloc[i] is df[i + 1].        *)
(* A text is a sequence of tokens, so that str.startswith is a prefix test.*)
(* A DataFrame cell is {} for NaN / null and {v} for the value v.          *)
(***************************************************************************)
EXTENDS Integers, Sequences, FiniteSets, TLC

\* ------------------------------------------------------------------ bounds
MaxRows == 3
MaxStart == 1
MaxRequests == 3
MaxInterval == 2
MaxClock == 1

\* ------------------------------------------------------- program constants
\* add_row_to_dataframe(df, commit_sha, conflict_resolution, index, total_rows)
AddRowArity == 5

Min(a, b) == IF a < b THEN a ELSE b

NaN == {}

\* ---------------------------------------------------------------- pandas
\* pd.DataFrame(columns=[...]) / pd.DataFrame()
EmptyDataFrame(cols) == [columns |-> cols, rows |-> <<>>]

\* pd.DataFrame([dict, ...]): the columns are the keys of the dicts
DataFrame(dicts) ==
    LET cols == UNION {DOMAIN dicts[i] : i \in 1..Len(dicts)}
    IN  [columns |-> cols,
         rows |-> [i \in 1..Len(dicts) |->
                     [c \in cols |-> IF c \in DOMAIN dicts[i]
                                     THEN {dicts[i][c]} ELSE NaN]]]

\* pd.concat([a, b], ignore_index=True): outer join on the columns, a cell
\* of a column the frame does not have is NaN
pd_concat(a, b) ==
    LET cols == a.columns \cup b.columns
        reindex(r) == [c \in cols |-> IF c \in DOMAIN r THEN r[c] ELSE NaN]
    IN  [columns |-> cols,
         rows |-> [i \in 1..Len(a.rows) |-> reindex(a.rows[i])]
                  \o [i \in 1..Len(b.rows) |-> reindex(b.rows[i])]]

\* DataFrame.empty
empty(d) == Len(d.rows) = 0

\* json.loads(df.to_json(orient="records")): one object per row, NaN -> null
to_json_records(d) == [i \in 1..Len(d.rows) |-> [c \in d.columns |-> d.rows[i][c]]]

\* ------------------------------------------------------------------ texts
\* str.startswith
startswith(s, p) == Len(s) >= Len(p) /\ SubSeq(s, 1, Len(p)) = p

SentinelPrefix == <<"Erro ao gerar">>

\* ------------------------------------------------------------ work items
IdOf(i) == 100 + 3 * i
ShaOf(i) == "sha" \o ToString(i)

WorkItem(i, wellFormed) ==
    [id |-> IdOf(i), commit_sha |-> ShaOf(i),
     conflict_tuple |-> IF wellFormed THEN "dict" ELSE "not_a_dict",
     commit_message |-> "msg"]

\* the collections main.load_input_data can hand to process_data: n rows,
\* the rows of `bad` carrying a conflict_tuple that is not a mapping
Collections ==
    {[k \in 1..n |-> WorkItem(k - 1, (k - 1) \notin bad)] :
        n \in 0..MaxRows, bad \in SUBSET (0..(MaxRows - 1))}

\* ------------------------------------------------------------- prompt.py
create_prompt(conflict_tuple, commit_message) ==
    IF conflict_tuple # "dict"
    THEN [raised |-> TRUE, error |-> <<"conflict_tuple nao e um dicionario valido">>]
    ELSE [raised |-> FALSE, error |-> <<>>]

\* ------------------------------------------------------------ the invoker
InvokerTexts == {<<"merged_a">>, <<"merged_b">>}
InvokerErrors == {<<"Error generating content: ", "timeout">>}
InvokerOutcomes ==
    {[raised |-> FALSE, text |-> t] : t \in InvokerTexts}
    \cup {[raised |-> TRUE, text |-> e] : e \in InvokerErrors}

\* --------------------------------------------------------------- utils.py
\* a call of add_row_to_dataframe with the positional arguments args
add_row_to_dataframe(args) ==
    IF Len(args) # AddRowArity
    THEN [raised |-> TRUE,
          error |-> <<"add_row_to_dataframe() missing 1 required positional argument: 'total_rows'">>,
          df |-> args[1]]
    ELSE [raised |-> FALSE, error |-> <<>>,
          df |-> pd_concat(args[1],
                           DataFrame(<<[commit_sha |-> args[2],
                                        conflict_resolution |-> args[3]]>>))]

\* handle_error losing the failed item instead of recording it
handle_error_drop(d, row, error) == d

handle_error(d, row, error) ==
    pd_concat(d, DataFrame(<<[commit_sha |-> row.commit_sha,
                              conflict_resolution |-> <<"Erro ao gerar", ": ">> \o error]>>))

\* the prompt built before the try: its ValueError leaves process_dataframe
per_item_try_prompt_outside(res, row, o) ==
    LET p == create_prompt(row.conflict_tuple, row.commit_message)
    IN  IF p.raised
        THEN [propagated |-> TRUE, called |-> FALSE, df |-> res]
        ELSE [propagated |-> FALSE, called |-> TRUE, df |-> handle_error(res, row, o.text)]

\* lines 43-57 of process_dataframe: the per-item try / except Exception.
\* o is what generate_content_fn does when it is called.
per_item_try(res, row, o) ==
    LET p == create_prompt(row.conflict_tuple, row.commit_message)
        a == add_row_to_dataframe(<<res, row.commit_sha, o.text, row.id>>)
    IN  IF p.raised
        THEN [propagated |-> FALSE, called |-> FALSE, df |-> handle_error(res, row, p.error)]
        ELSE IF o.raised
        THEN [propagated |-> FALSE, called |-> TRUE, df |-> handle_error(res, row, o.text)]
        ELSE IF a.raised
        THEN [propagated |-> FALSE, called |-> TRUE, df |-> handle_error(res, row, a.error)]
        ELSE [propagated |-> FALSE, called |-> TRUE, df |-> a.df]

\* ------------------------------------------------------- save_checkpoint
None == {}

\* a local name that is not bound: before its first assignment, or once the
\* frame of the call that held it is gone. The code never reads such a name.
Unbound == -1
UnboundFrame == EmptyDataFrame({})

\* the configuration of the run; a model is its '/'-separated parts
LLMConfigs ==
    {[provider |-> "groq", model |-> <<"qwen", "Qwen-2.5-Coder-32B">>]}

\* str.lower on the model names in use
lower(s) == IF s = "Qwen-2.5-Coder-32B" THEN "qwen-2.5-coder-32b" ELSE s

\* llm_config.model.split('/')[-1].lower()
model_name(cfg) == lower(cfg.model[Len(cfg.model)])

\* datetime.now().strftime("%Y%m%d_%H%M%S"): fixed width, one value per second
strftime(now) == "20250316_1200" \o (IF now < 10 THEN "0" ELSE "") \o ToString(now)

\* a checkpoint name built from the model and the timestamp only
checkpoint_filename_no_idx(cfg, now, last_processed_index) ==
    "checkpoint_" \o model_name(cfg) \o "_" \o strftime(now) \o ".json"

checkpoint_filename(cfg, now, last_processed_index) ==
    "checkpoint_" \o model_name(cfg) \o "_" \o strftime(now)
        \o "_idx" \o ToString(last_processed_index) \o ".json"

final_filename(cfg, now) ==
    "solved_conflicts_" \o model_name(cfg) \o "_" \o strftime(now) \o ".json"

IoOutcomes == {"ok", "makedirs_error", "open_error"}

\* save_checkpoint(result_df, llm_config, project_root, last_processed_index,
\* is_final) at clock second now, io being what the file system does.
\* written is the file the call leaves on disk, if any.
save_checkpoint(d, cfg, last_processed_index, is_final, now, io) ==
    LET filename == IF is_final THEN final_filename(cfg, now)
                    ELSE checkpoint_filename(cfg, now, last_processed_index)
        output_data ==
            [path |-> filename,
             metadata |-> [provider |-> cfg.provider,
                           model |-> cfg.model,
                           repository_name |-> "elastic",
                           timestamp |-> now,
                           total_records |-> Len(d.rows),
                           last_processed_index |-> last_processed_index,
                           is_checkpoint |-> ~is_final],
             results |-> to_json_records(d)]
    IN  IF io = "makedirs_error"
        THEN [raised |-> TRUE, path |-> None, written |-> <<>>]
        ELSE IF io = "open_error"
        THEN [raised |-> FALSE, path |-> None, written |-> <<>>]
        ELSE [raised |-> FALSE, path |-> {filename}, written |-> <<output_data>>]

\* the final save forgetting is_final=True
save_results_as_checkpoint(d, cfg, last_processed_index, now, io) ==
    save_checkpoint(d, cfg, last_processed_index, FALSE, now, io)

\* save_results(result_df, llm_config, project_root, last_processed_index)
save_results(d, cfg, last_processed_index, now, io) ==
    save_checkpoint(d, cfg, last_processed_index, TRUE, now, io)

\* ------------------------------------------------------------------ state
VARIABLES
    df,                   \* the work item collection (main.py:225)
    start_index,          \* process_data's arguments
    max_requests,
    checkpoint_interval,
    llm_config,
    pc,                   \* position of the run inside main / process_data
    result_df,            \* process_data's accumulator (main.py:159)
    current_index,        \* main.py:160
    end_index,            \* main.py:164
    last_idx,             \* main.py:168
    batch_df,             \* main.py:168
    checkpoint_path,      \* main.py:185
    last_processed_index, \* main.py:209
    res_df,               \* process_dataframe's accumulator (generator:23)
    index,                \* process_dataframe's loop index (generator:31)
    pd_end_index,         \* process_dataframe's end_index (generator:29)
    files,                \* the files written so far, in write order
    clock,                \* datetime.now(), in seconds
    results_path,         \* what save_results returned to main (main.py:237)
    caught,               \* the except clause process_data ran (main.py:203-206)
    invoked,              \* history: the generate_content_fn calls that completed
    slept,                \* history: time.sleep was called since the last item
    triage,               \* the state of a triage pass (regenerate_conflicts.py
                          \* process_file, main.py regenerate_failed_resolutions)
    merge                 \* the state of a merge_datasets call (merge_dataset.py)

vars == <<df, start_index, max_requests, checkpoint_interval, llm_config, pc,
          result_df, current_index, end_index, last_idx, batch_df,
          checkpoint_path, last_processed_index, res_df, index, pd_end_index,
          files, clock, results_path, caught, invoked, slept, triage, merge>>

\* the other tools of the repository, which a run of main never touches
other_tools == <<triage, merge>>

\* what a run of main is given and leaves alone
inputs == <<df, start_index, max_requests, checkpoint_interval, llm_config,
            other_tools>>
pd_frame == <<res_df, index, pd_end_index>>
loop_locals == <<end_index, last_idx, batch_df, checkpoint_path, results_path>>

ResultColumns == {"id", "commit_sha", "conflict_resolution"}

\* main.py:152, 157
total_rows == Len(df)
batch_size == Min(checkpoint_interval, max_requests)

\* the condition that is still true at the end of the window
more_to_do_inclusive == current_index <= Min(total_rows, start_index + max_requests)

\* the loop that runs one batch only
more_to_do_once ==
    current_index = start_index /\ current_index < Min(total_rows, start_index + max_requests)

\* the condition of the while loop, main.py:163 (and of the wait, main.py:195)
more_to_do == current_index < Min(total_rows, start_index + max_requests)

\* off by one: the exclusive end reported as the last processed index
last_processed_index_exclusive(cur, start) == cur

\* main.py:209
last_processed_index_of(cur, start) == IF cur > start THEN cur - 1 ELSE start

\* positions inside the try block of process_data (main.py:162-201)
TryPcs == {"loop_test", "item", "item_sleep", "pd_return", "concat",
           "checkpoint", "batch_sleep", "drain_check"}

\* main has loaded the data and entered process_data (main.py:150-160)
Init ==
    /\ df \in Collections
    /\ start_index \in 0..MaxStart
    /\ max_requests \in 0..MaxRequests
    /\ checkpoint_interval \in 0..MaxInterval
    /\ llm_config \in LLMConfigs
    /\ pc = "loop_test"
    /\ result_df = EmptyDataFrame({})
    /\ current_index = start_index
    /\ end_index = Unbound
    /\ last_idx = Unbound
    /\ batch_df = UnboundFrame
    /\ checkpoint_path = None
    /\ results_path = None
    /\ last_processed_index = Unbound
    /\ res_df = UnboundFrame
    /\ index = Unbound
    /\ pd_end_index = Unbound
    /\ files = <<>>
    /\ clock = 0
    /\ caught = "none"
    /\ invoked = <<>>
    /\ slept = FALSE
    /\ triage = None
    /\ merge = None

\* main.py:163-174 and generator:23-31: the loop test, and the entry into
\* process_dataframe(df, fn, current_index, end_index - current_index)
LoopTest ==
    /\ pc = "loop_test"
    /\ IF more_to_do
       THEN LET e == Min(current_index + batch_size, start_index + max_requests)
                pe == Min(current_index + (e - current_index), total_rows)
            IN  /\ end_index' = e
                /\ res_df' = EmptyDataFrame(ResultColumns)
                /\ pd_end_index' = pe
                /\ index' = current_index
                /\ pc' = IF current_index < pe THEN "item" ELSE "pd_return"
       ELSE /\ pc' = "after_loop"
            /\ UNCHANGED <<end_index, pd_frame>>
    /\ UNCHANGED <<inputs, slept, result_df, current_index, last_idx, batch_df,
                   checkpoint_path, results_path, last_processed_index, files,
                   clock, caught, invoked>>

\* generator:32-59: one item of the batch
Item ==
    /\ pc = "item"
    /\ \E o \in InvokerOutcomes :
         LET row == df[index + 1]
             r == per_item_try(res_df, row, o)
         IN  /\ invoked' = IF r.called
                           THEN Append(invoked, [index |-> index, raised |-> o.raised,
                                                 text |-> o.text])
                           ELSE invoked
             /\ IF r.propagated
                THEN \* the exception leaves process_dataframe: main.py:205
                     /\ pc' = "after_loop"
                     /\ caught' = "Exception"
                     /\ res_df' = UnboundFrame
                     /\ index' = Unbound
                     /\ pd_end_index' = Unbound
                ELSE /\ res_df' = r.df
                     /\ caught' = caught
                     /\ pd_end_index' = pd_end_index
                     /\ IF index < pd_end_index - 1
                        THEN pc' = "item_sleep" /\ index' = index
                        ELSE pc' = "pd_return" /\ index' = index + 1
    /\ slept' = FALSE
    /\ UNCHANGED <<inputs, result_df, current_index, loop_locals,
                   last_processed_index, files, clock>>

\* generator:59-61: time.sleep(wait_time) between two items
ItemSleep ==
    /\ pc = "item_sleep"
    /\ index' = index + 1
    /\ pc' = "item"
    /\ slept' = TRUE
    /\ UNCHANGED <<inputs, result_df, current_index, loop_locals,
                   last_processed_index, res_df, pd_end_index, files, clock,
                   caught, invoked>>

\* generator:63 and main.py:168-176: process_dataframe returns
\* (res_df, end_index); current_index = end_index
PdReturn ==
    /\ pc = "pd_return"
    /\ batch_df' = res_df
    /\ last_idx' = pd_end_index
    /\ current_index' = end_index
    /\ res_df' = UnboundFrame
    /\ index' = Unbound
    /\ pd_end_index' = Unbound
    /\ pc' = "concat"
    /\ UNCHANGED <<inputs, slept, result_df, end_index, checkpoint_path, results_path,
                   last_processed_index, files, clock, caught, invoked>>

\* the accumulator replaced by the batch instead of extended with it
Concat_keeps_last_batch ==
    /\ pc = "concat"
    /\ result_df' = IF ~empty(batch_df) THEN batch_df ELSE result_df
    /\ pc' = "checkpoint"
    /\ UNCHANGED <<inputs, slept, current_index, loop_locals, last_processed_index,
                   pd_frame, files, clock, caught, invoked>>

\* main.py:178-182
Concat ==
    /\ pc = "concat"
    /\ result_df' = IF ~empty(batch_df)
                    THEN IF empty(result_df) THEN batch_df
                         ELSE pd_concat(result_df, batch_df)
                    ELSE result_df
    /\ pc' = "checkpoint"
    /\ UNCHANGED <<inputs, slept, current_index, loop_locals, last_processed_index,
                   pd_frame, files, clock, caught, invoked>>

\* main.py:184-197: the intermediate checkpoint (project_root and llm_config
\* are the ones main passes, both truthy)
Checkpoint ==
    /\ pc = "checkpoint"
    /\ IF ~empty(result_df)
       THEN \E io \in IoOutcomes :
              LET s == save_checkpoint(result_df, llm_config, end_index, FALSE, clock, io)
              IN  /\ files' = files \o s.written
                  /\ IF s.raised
                     THEN \* main.py:205
                          /\ pc' = "after_loop"
                          /\ caught' = "Exception"
                          /\ checkpoint_path' = checkpoint_path
                     ELSE /\ checkpoint_path' = s.path
                          /\ caught' = caught
                          /\ pc' = IF more_to_do THEN "batch_sleep" ELSE "drain_check"
       ELSE /\ pc' = "drain_check"
            /\ UNCHANGED <<files, caught, checkpoint_path>>
    /\ UNCHANGED <<inputs, slept, result_df, current_index, end_index, last_idx,
                   batch_df, results_path, last_processed_index, pd_frame, clock,
                   invoked>>

\* main.py:195-197: time.sleep(EXPERIMENT_WAIT_TIME) between two batches
BatchSleep ==
    /\ pc = "batch_sleep"
    /\ pc' = "drain_check"
    /\ slept' = TRUE
    /\ UNCHANGED <<inputs, result_df, current_index, loop_locals,
                   last_processed_index, pd_frame, files, clock, caught, invoked>>

\* main.py:199-201
DrainCheck ==
    /\ pc = "drain_check"
    /\ pc' = IF last_idx < end_index - 1 THEN "after_loop" ELSE "loop_test"
    /\ UNCHANGED <<inputs, slept, result_df, current_index, loop_locals,
                   last_processed_index, pd_frame, files, clock, caught, invoked>>

\* main.py:203-204: KeyboardInterrupt raised anywhere inside the try block;
\* the frame of a running process_dataframe is unwound with it
Interrupt ==
    /\ pc \in TryPcs
    /\ pc' = "after_loop"
    /\ caught' = "KeyboardInterrupt"
    /\ res_df' = UnboundFrame
    /\ index' = Unbound
    /\ pd_end_index' = Unbound
    /\ UNCHANGED <<inputs, slept, result_df, current_index, loop_locals,
                   last_processed_index, files, clock, invoked>>

\* main.py:208-212: process_data returns (result_df, last_processed_index)
AfterLoop ==
    /\ pc = "after_loop"
    /\ last_processed_index' = last_processed_index_of(current_index, start_index)
    /\ pc' = "save_results"
    /\ UNCHANGED <<inputs, slept, result_df, current_index, loop_locals, pd_frame,
                   files, clock, caught, invoked>>

\* main.py:237: save_results(result_df, llm_config, project_root,
\* last_processed_index)
SaveResults ==
    /\ pc = "save_results"
    /\ \E io \in IoOutcomes :
         LET s == save_results(result_df, llm_config, last_processed_index, clock, io)
         IN  /\ files' = files \o s.written
             /\ results_path' = s.path
             /\ pc' = IF s.raised THEN "main_raised" ELSE "done"
    /\ UNCHANGED <<inputs, slept, result_df, current_index, end_index, last_idx,
                   batch_df, checkpoint_path, last_processed_index, pd_frame,
                   clock, caught, invoked>>

\* a second passes on the wall clock
Tick ==
    /\ clock < MaxClock
    /\ pc \notin {"done", "main_raised"}
    /\ clock' = clock + 1
    /\ UNCHANGED <<inputs, slept, pc, result_df, current_index, loop_locals,
                   last_processed_index, pd_frame, files, caught, invoked>>

Next ==
    \/ LoopTest
    \/ Item
    \/ ItemSleep
    \/ PdReturn
    \/ Concat
    \/ Checkpoint
    \/ BatchSleep
    \/ DrainCheck
    \/ Interrupt
    \/ AfterLoop
    \/ SaveResults
    \/ Tick

Spec == Init /\ [][Next]_vars

\* ------------------------------------------------------------ type check
returned == pc \in {"save_results", "done", "main_raised"}

TypeOK ==
    /\ pc \in TryPcs \cup {"after_loop", "save_results", "done", "main_raised"}
    /\ caught \in {"none", "KeyboardInterrupt", "Exception"}
    /\ current_index \in Nat
    /\ clock \in 0..MaxClock
    /\ returned => last_processed_index \in Nat

\* ================================================================ claims
\* the generate_content_fn calls made for collection index i
CallsFor(i) == {k \in 1..Len(invoked) : invoked[k].index = i}

\* at "pd_return" process_dataframe(df, fn, current_index,
\* end_index - current_index) is about to return res_df; its window:
WindowLo == current_index
WindowHi == Min(current_index + (end_index - current_index), total_rows)

\* the text held by record r starts with the error sentinel
IsSentinel(r) == \A t \in r.conflict_resolution : startswith(t, SentinelPrefix)

\* the window of the whole run
RunLo == start_index
RunHi == Min(start_index + max_requests, total_rows)

\* C1: for every non-empty window, one call of process_dataframe returns
\* exactly one record per item of the window, in the window's order, whatever
\* mix of successes and exceptions the invoker produced.
C1_OneRecordPerItem ==
    (pc = "pd_return" /\ WindowLo < WindowHi) =>
        /\ Len(res_df.rows) = WindowHi - WindowLo
        /\ \A k \in 1..(WindowHi - WindowLo) :
               res_df.rows[k].commit_sha = {df[WindowLo + k].commit_sha}

\* a two-item batch in which the invoker returned for one item and raised
\* for another
C1_Witness ==
    /\ pc = "pd_return"
    /\ WindowHi - WindowLo = 2
    /\ Len(res_df.rows) = 2
    /\ \E a, b \in 1..Len(invoked) :
          /\ invoked[a].index >= WindowLo /\ invoked[b].index >= WindowLo
          /\ invoked[a].raised /\ ~invoked[b].raised

\* C2 (as claimed): when the invoker returns successfully for every item of
\* the window, no record of the batch starts with the error sentinel and each
\* record holds the text the invoker returned for its item.
C2_NoSentinelWhenInvokerSucceeds ==
    (/\ pc = "pd_return"
     /\ \A i \in WindowLo..(WindowHi - 1) :
           /\ CallsFor(i) # {}
           /\ \A k \in CallsFor(i) : ~invoked[k].raised)
    => \A j \in 1..Len(res_df.rows) :
           /\ ~IsSentinel(res_df.rows[j])
           /\ \E k \in CallsFor(WindowLo + j - 1) :
                 res_df.rows[j].conflict_resolution = {invoked[k].text}

\* C3: when the invoker raised for every item of a non-empty window inside
\* the collection and the run was not interrupted, every record of the run
\* carries the sentinel and process_data reports
\* last_processed_index = start_index + max_requests - 1.
C3_AllFailReportsWindowEnd ==
    (/\ returned
     /\ caught # "KeyboardInterrupt"
     /\ max_requests >= 1
     /\ start_index + max_requests <= total_rows
     /\ \A i \in start_index..(start_index + max_requests - 1) :
           /\ CallsFor(i) # {}
           /\ \A k \in CallsFor(i) : invoked[k].raised)
    => /\ Len(result_df.rows) = max_requests
       /\ \A j \in 1..Len(result_df.rows) : IsSentinel(result_df.rows[j])
       /\ last_processed_index = start_index + max_requests - 1

\* a run of several batches in which every invoker call raised
C3_Witness ==
    /\ returned
    /\ caught = "none"
    /\ max_requests >= 2
    /\ checkpoint_interval = 1
    /\ start_index + max_requests <= total_rows
    /\ Len(invoked) = max_requests
    /\ \A k \in 1..Len(invoked) : invoked[k].raised
    /\ last_processed_index = start_index + max_requests - 1

\* the step is the item step (the only uninterrupted step that leaves "item")
\* and it raises inside the per-item try (the prompt builder or the invoker)
ItemRaised ==
    /\ pc = "item"
    /\ pc' # "item"
    /\ caught' # "KeyboardInterrupt"
    /\ \/ create_prompt(df[index + 1].conflict_tuple, df[index + 1].commit_message).raised
       \/ /\ Len(invoked') = Len(invoked) + 1
          /\ invoked'[Len(invoked')].raised

\* C4: an exception raised by the per-item step never leaves
\* process_dataframe or process_data: the item gets its record, the batch goes
\* on with the next item, and a run that is neither interrupted nor stopped by
\* the loop machinery has a record for every item of its window.
C4_ItemFailureIsolated ==
    /\ [][ItemRaised =>
            /\ pc' \in {"item_sleep", "pd_return"}
            /\ caught' = "none"
            /\ Len(res_df'.rows) = Len(res_df.rows) + 1]_vars
    /\ []((returned /\ caught = "none") =>
            /\ Len(result_df.rows) = (IF RunLo < RunHi THEN RunHi - RunLo ELSE 0)
            /\ \A j \in 1..Len(result_df.rows) :
                  result_df.rows[j].commit_sha = {df[RunLo + j].commit_sha})

\* the first item of a batch had a malformed conflict_tuple, the second one
\* was attempted all the same
C4_Witness ==
    /\ pc = "pd_return"
    /\ WindowHi - WindowLo = 2
    /\ df[WindowLo + 1].conflict_tuple # "dict"
    /\ CallsFor(WindowLo + 1) # {}
    /\ Len(res_df.rows) = 2

\* C5 (as claimed): every record produced by the batch runner carries the id
\* of the work item it was produced from.
C5_RecordIdIsItemId ==
    pc = "pd_return" =>
        \A j \in 1..Len(res_df.rows) : res_df.rows[j].id = {df[WindowLo + j].id}

\* C6 (as claimed): after an interruption, the result set process_data
\* returns has a record for every item whose invoker call had completed.
C6_InterruptKeepsCompleted ==
    (returned /\ caught = "KeyboardInterrupt") =>
        \A k \in 1..Len(invoked) :
            \E j \in 1..Len(result_df.rows) :
                result_df.rows[j].commit_sha = {df[invoked[k].index + 1].commit_sha}

\* C7 (as claimed): when fewer items are available than requested, the
\* reported last_processed_index is collection length - 1.
C7_DrainedReportsLastItem ==
    (/\ returned
     /\ caught = "none"
     /\ start_index < total_rows
     /\ start_index + max_requests > total_rows)
    => last_processed_index = total_rows - 1

\* C8 (as claimed): a failed intermediate checkpoint is not fatal:
\* save_checkpoint returns None instead of raising, the accumulated results
\* are unchanged, and process_data goes on with the batch loop.
C8_CheckpointFailureNonFatal ==
    [][(Checkpoint /\ ~empty(result_df) /\ files' = files) =>
          /\ checkpoint_path' = None
          /\ caught' = "none"
          /\ result_df' = result_df
          /\ pc' \in {"batch_sleep", "drain_check"}]_vars

\* C9: any two files written by one run have different filenames, also when
\* they are written within the same clock second.
C9_DistinctFilenames ==
    \A i, j \in 1..Len(files) : i # j => files[i].path # files[j].path

\* two checkpoints and the final file, all written in the same second
C9_Witness ==
    /\ pc = "done"
    /\ Len(files) = 3
    /\ files[1].metadata.is_checkpoint
    /\ files[2].metadata.is_checkpoint
    /\ ~files[3].metadata.is_checkpoint
    /\ files[1].metadata.timestamp = files[3].metadata.timestamp

main_finished == pc \in {"done", "main_raised"}

\* C10 (as claimed): every run of main that reaches the batch loop writes
\* exactly one file with is_checkpoint = false and writes it last; every file
\* written earlier has is_checkpoint = true.
C10_ExactlyOneFinalWrittenLast ==
    main_finished =>
        /\ Len(files) >= 1
        /\ ~files[Len(files)].metadata.is_checkpoint
        /\ \A i \in 1..(Len(files) - 1) : files[i].metadata.is_checkpoint

\* C10 (amended): when the final save succeeds the run has written exactly
\* one file with is_checkpoint = false, and written it last; when the final
\* save fails no such file is written; every earlier file has
\* is_checkpoint = true.
C10_FinalWrittenLastUnlessSaveFails ==
    /\ ~main_finished => \A i \in 1..Len(files) : files[i].metadata.is_checkpoint
    /\ main_finished =>
         IF results_path # None
         THEN /\ Len(files) >= 1
              /\ ~files[Len(files)].metadata.is_checkpoint
              /\ results_path = {files[Len(files)].path}
              /\ \A i \in 1..(Len(files) - 1) : files[i].metadata.is_checkpoint
         ELSE \A i \in 1..Len(files) : files[i].metadata.is_checkpoint

\* an interrupted run: one checkpoint, then the final file
C10_Witness ==
    /\ pc = "done"
    /\ caught = "KeyboardInterrupt"
    /\ Len(files) = 2
    /\ files[1].metadata.is_checkpoint
    /\ ~files[2].metadata.is_checkpoint

\* ================================================================ triage
\* regenerate_conflicts.py (process_file) and main.py
\* (regenerate_failed_resolutions): the two entry points of the triage pass.
\* A results file is [metadata, results]; a record of results is a JSON
\* object whose values are cells ({} is null). A path is [base, ext], which
\* is what os.path.splitext makes of it.

MaxResults == 2

\* `tok in text`, the patterns being tokens of the texts in use
contains(text, tok) == \E i \in 1..Len(text) : text[i] = tok

\* dict.update
update(m, u) ==
    [k \in (DOMAIN m) \cup (DOMAIN u) |-> IF k \in DOMAIN u THEN u[k] ELSE m[k]]

\* the indices 0 .. n-1 of enumerate(results)
Indices(n) == [i \in 1..n |-> i - 1]

\* regenerate_conflicts.py:116-118: isinstance(resolution, str) and
\* resolution.startswith("Erro ao gerar")
is_failed_resolution(result) ==
    LET resolution == result.conflict_resolution
    IN  /\ resolution # NaN
        /\ \A t \in resolution : startswith(t, SentinelPrefix)

\* regenerate_conflicts.py:109-121
identify_failed_resolutions(results) ==
    SelectSeq(Indices(Len(results)), LAMBDA i : is_failed_resolution(results[i + 1]))

\* main.py:280-285
is_failed_resolution_main(result) ==
    LET resolution == result.conflict_resolution
    IN  /\ resolution # NaN
        /\ \A t \in resolution :
              \/ startswith(t, SentinelPrefix)
              \/ contains(t, "Error generating content")
              \/ contains(t, "RateLimitError")
              \/ contains(t, "rate_limit_exceeded")

\* main.py:276-286
failed_indices_main(results) ==
    SelectSeq(Indices(Len(results)), LAMBDA i : is_failed_resolution_main(results[i + 1]))

\* what the dataset directory of the repository looks like
DatasetDirs == {"default_path", "other_jsonl", "no_jsonl", "no_dir"}

\* regenerate_conflicts.py:89-107
find_dataset_file(fs) ==
    IF fs = "default_path"
    THEN {"data/dataset/elastic/elastic_train_conflicts.jsonl"}
    ELSE IF fs = "other_jsonl"
    THEN {"data/dataset/elastic/jsonl_files[0]"}
    ELSE None

\* main.py:298-311
data_path_main(fs) ==
    IF fs = "default_path"
    THEN {"data/dataset/elastic/elastic_train_conflicts.jsonl"}
    ELSE IF fs = "other_jsonl"
    THEN {"data/dataset/elastic/jsonl_files[0]"}
    ELSE None

\* dataset_df[dataset_df['id'] == result_id]
rows_with_id(dataset, result_id) ==
    SelectSeq(dataset, LAMBDA row : result_id = {row.id})

\* the retry that also calls the invoker for an id the dataset does not have
retry_item_no_skip(results, result_idx, dataset, o) ==
    [found |-> TRUE, called |-> TRUE, updated |-> ~o.raised,
     results |-> IF o.raised THEN results
                 ELSE [results EXCEPT ![result_idx + 1].conflict_resolution = {o.text}]]

\* the retry calling the invoker although the prompt could not be built
retry_item_calls_without_prompt(results, result_idx, dataset, o) ==
    LET original_data == rows_with_id(dataset, results[result_idx + 1].id)
    IN  IF Len(original_data) = 0
        THEN [found |-> FALSE, called |-> FALSE, updated |-> FALSE, results |-> results]
        ELSE IF o.raised
        THEN [found |-> TRUE, called |-> TRUE, updated |-> FALSE, results |-> results]
        ELSE [found |-> TRUE, called |-> TRUE, updated |-> TRUE,
              results |-> [results EXCEPT ![result_idx + 1].conflict_resolution = {o.text}]]

\* the retry recording the renewed failure in the record
retry_item_records_error(results, result_idx, dataset, o) ==
    LET original_data == rows_with_id(dataset, results[result_idx + 1].id)
    IN  IF Len(original_data) = 0
        THEN [found |-> FALSE, called |-> FALSE, updated |-> FALSE, results |-> results]
        ELSE [found |-> TRUE, called |-> TRUE, updated |-> ~o.raised,
              results |-> [results EXCEPT ![result_idx + 1].conflict_resolution =
                              IF o.raised THEN {<<"Erro ao gerar", ": ">> \o o.text}
                              ELSE {o.text}]]

\* regenerate_conflicts.py:154-184: one failed record of process_file; o is
\* what llm_client.generate_content does when it is called
retry_item(results, result_idx, dataset, o) ==
    LET original_data == rows_with_id(dataset, results[result_idx + 1].id)
        original_row == original_data[1]
        p == create_prompt(original_row.conflict_tuple, original_row.commit_message)
    IN  IF Len(original_data) = 0
        THEN [found |-> FALSE, called |-> FALSE, updated |-> FALSE, results |-> results]
        ELSE IF p.raised
        THEN [found |-> TRUE, called |-> FALSE, updated |-> FALSE, results |-> results]
        ELSE IF o.raised
        THEN [found |-> TRUE, called |-> TRUE, updated |-> FALSE, results |-> results]
        ELSE [found |-> TRUE, called |-> TRUE, updated |-> TRUE,
              results |-> [results EXCEPT ![result_idx + 1].conflict_resolution = {o.text}]]

\* main.py:318-346: one failed record of regenerate_failed_resolutions
retry_item_main(results, result_idx, dataset, o) ==
    LET original_data == rows_with_id(dataset, results[result_idx + 1].id)
        original_row == original_data[1]
        p == create_prompt(original_row.conflict_tuple, original_row.commit_message)
    IN  IF Len(original_data) = 0
        THEN [found |-> FALSE, called |-> FALSE, updated |-> FALSE, results |-> results]
        ELSE IF p.raised
        THEN [found |-> TRUE, called |-> FALSE, updated |-> FALSE, results |-> results]
        ELSE IF o.raised
        THEN [found |-> TRUE, called |-> TRUE, updated |-> FALSE, results |-> results]
        ELSE [found |-> TRUE, called |-> TRUE, updated |-> TRUE,
              results |-> [results EXCEPT ![result_idx + 1].conflict_resolution = {o.text}]]

\* os.path.splitext and f"{base_name}_fixed{ext}"
fixed_path(input_file) == [base |-> input_file.base \o "_fixed", ext |-> input_file.ext]

\* regenerate_conflicts.py:194-200 and main.py:354-359
output_file_of(input_file, output, overwrite) ==
    IF output # None THEN CHOOSE f \in output : TRUE
    ELSE IF overwrite THEN input_file
    ELSE fixed_path(input_file)

\* ---------------------------------------------------- the triage inputs
ResultIds == {NaN, {IdOf(0)}, {IdOf(1)}, {IdOf(2)}}

\* conflict_resolution of a stored record: null, a resolution, an error
\* record of handle_error, a resolution whose code mentions RateLimitError
ResolutionCells ==
    {NaN,
     {<<"merged_a">>},
     {<<"Erro ao gerar", ": ", "timeout">>},
     {<<"catch (", "RateLimitError", " e) { retry(); }">>}}

ResultRecords ==
    {[id |-> i, commit_sha |-> {ShaOf(0)}, conflict_resolution |-> c] :
        i \in ResultIds, c \in ResolutionCells}

ResultLists ==
    UNION {[1..n -> ResultRecords] : n \in 0..MaxResults}

\* the file save_checkpoint left for the results rs
ResultsFile(rs) ==
    [metadata |-> [provider |-> "groq", model |-> <<"qwen", "Qwen-2.5-Coder-32B">>,
                   repository_name |-> "elastic", timestamp |-> 0,
                   total_records |-> Len(rs), last_processed_index |-> Len(rs) - 1,
                   is_checkpoint |-> FALSE],
     results |-> rs]

\* the dataset of the repository: ids IdOf(0) and IdOf(1), the second row
\* with a conflict_tuple that is not a mapping
TriageDataset == <<WorkItem(0, TRUE), WorkItem(1, FALSE)>>

InputPath == [base |-> "out/solved_conflicts", ext |-> ".json"]
OutputPath == [base |-> "out/regenerated", ext |-> ".json"]

\* --output and --overwrite
TriageArgs ==
    {[output |-> None, overwrite |-> FALSE],
     [output |-> None, overwrite |-> TRUE],
     [output |-> {OutputPath}, overwrite |-> FALSE]}

TriageEntries == {"process_file", "regenerate_failed_resolutions"}

\* the variables of a run of main.py's main while another tool runs
run_vars == <<df, start_index, max_requests, checkpoint_interval, llm_config,
              pc, result_df, current_index, end_index, last_idx, batch_df,
              checkpoint_path, last_processed_index, res_df, index,
              pd_end_index, files, clock, results_path, caught, invoked,
              slept>>

RunIdle ==
    /\ df = <<>>
    /\ start_index = 0
    /\ max_requests = 0
    /\ checkpoint_interval = 0
    /\ llm_config \in LLMConfigs
    /\ pc = "idle"
    /\ result_df = EmptyDataFrame({})
    /\ current_index = 0
    /\ end_index = Unbound
    /\ last_idx = Unbound
    /\ batch_df = UnboundFrame
    /\ checkpoint_path = None
    /\ results_path = None
    /\ last_processed_index = Unbound
    /\ res_df = UnboundFrame
    /\ index = Unbound
    /\ pd_end_index = Unbound
    /\ files = <<>>
    /\ clock = 0
    /\ caught = "none"
    /\ invoked = <<>>
    /\ slept = FALSE

\* a triage entry point has been called on input_file
InitTriage ==
    /\ RunIdle
    /\ merge = None
    /\ triage \in
         {[entry |-> e, input_file |-> InputPath, args |-> a, fs |-> f,
           dataset |-> TriageDataset, disk |-> ResultsFile(rs), pc |-> "start",
           metadata |-> <<>>, results |-> <<>>, failed_indices |-> <<>>,
           idx |-> 0, updated_count |-> 0, calls |-> <<>>, written |-> <<>>,
           ret |-> None] :
            e \in TriageEntries, a \in TriageArgs, f \in DatasetDirs,
            rs \in ResultLists}

\* one step of the retry loop, shared shape of both entry points: r is what
\* the retry of failed_indices[idx] did
AfterRetry(r, o, counts) ==
    LET total == Len(triage.failed_indices)
        result_idx == triage.failed_indices[triage.idx + 1]
        waits == r.found /\ triage.idx < total - 1
    IN  triage' = [triage EXCEPT
            !.results = r.results,
            !.updated_count = IF counts /\ r.updated THEN @ + 1 ELSE @,
            !.calls = IF r.called
                      THEN Append(@, [result_idx |-> result_idx, raised |-> o.raised,
                                      text |-> o.text])
                      ELSE @,
            !.idx = IF waits THEN @ ELSE @ + 1,
            !.pc = IF waits THEN "sleep"
                   ELSE IF triage.idx + 1 < total THEN "item" ELSE "save"]

\* regenerate_conflicts.py:123-151
ProcessFileStart ==
    /\ triage.entry = "process_file"
    /\ triage.pc = "start"
    /\ LET failed == identify_failed_resolutions(triage.disk.results)
           dataset_file == find_dataset_file(triage.fs)
       IN  IF Len(failed) = 0 \/ dataset_file = None
           THEN triage' = [triage EXCEPT !.pc = "returned", !.ret = None,
                              !.metadata = triage.disk.metadata,
                              !.results = triage.disk.results,
                              !.failed_indices = failed]
           ELSE triage' = [triage EXCEPT !.pc = "item",
                              !.metadata = triage.disk.metadata,
                              !.results = triage.disk.results,
                              !.failed_indices = failed,
                              !.idx = 0, !.updated_count = 0]
    /\ UNCHANGED <<run_vars, merge>>

\* regenerate_conflicts.py:153-187
ProcessFileItem ==
    /\ triage.entry = "process_file"
    /\ triage.pc = "item"
    /\ \E o \in InvokerOutcomes :
         AfterRetry(retry_item(triage.results, triage.failed_indices[triage.idx + 1],
                               triage.dataset, o), o, TRUE)
    /\ UNCHANGED <<run_vars, merge>>

\* regenerate_conflicts.py:187-189
ProcessFileSleep ==
    /\ triage.entry = "process_file"
    /\ triage.pc = "sleep"
    /\ triage' = [triage EXCEPT !.idx = @ + 1, !.pc = "item"]
    /\ UNCHANGED <<run_vars, merge>>

\* regenerate_conflicts.py:191-223
ProcessFileSave ==
    /\ triage.entry = "process_file"
    /\ triage.pc = "save"
    /\ \E io \in {"ok", "open_error"} :
         LET output_file == output_file_of(triage.input_file, triage.args.output,
                                           triage.args.overwrite)
             metadata == update(triage.metadata,
                                [regeneration_timestamp |-> 1,
                                 regenerated_count |-> triage.updated_count,
                                 total_records |-> Len(triage.results)])
             output_data == [path |-> output_file, metadata |-> metadata,
                             results |-> triage.results]
         IN  triage' = [triage EXCEPT
                 !.metadata = metadata,
                 !.written = IF io = "ok" THEN Append(@, output_data) ELSE @,
                 !.ret = IF io = "ok" THEN {output_file} ELSE None,
                 !.pc = "returned"]
    /\ UNCHANGED <<run_vars, merge>>

\* main.py:260-314
RegenerateStart ==
    /\ triage.entry = "regenerate_failed_resolutions"
    /\ triage.pc = "start"
    /\ LET failed == failed_indices_main(triage.disk.results)
           data_path == data_path_main(triage.fs)
       IN  IF Len(failed) = 0
           THEN triage' = [triage EXCEPT !.pc = "returned",
                              !.ret = {triage.input_file},
                              !.metadata = triage.disk.metadata,
                              !.results = triage.disk.results,
                              !.failed_indices = failed]
           ELSE IF data_path = None
           THEN triage' = [triage EXCEPT !.pc = "returned", !.ret = None,
                              !.metadata = triage.disk.metadata,
                              !.results = triage.disk.results,
                              !.failed_indices = failed]
           ELSE triage' = [triage EXCEPT !.pc = "item",
                              !.metadata = triage.disk.metadata,
                              !.results = triage.disk.results,
                              !.failed_indices = failed,
                              !.idx = 0]
    /\ UNCHANGED <<run_vars, merge>>

\* main.py:317-349
RegenerateItem ==
    /\ triage.entry = "regenerate_failed_resolutions"
    /\ triage.pc = "item"
    /\ \E o \in InvokerOutcomes :
         AfterRetry(retry_item_main(triage.results,
                                    triage.failed_indices[triage.idx + 1],
                                    triage.dataset, o), o, FALSE)
    /\ UNCHANGED <<run_vars, merge>>

\* main.py:349-351
RegenerateSleep ==
    /\ triage.entry = "regenerate_failed_resolutions"
    /\ triage.pc = "sleep"
    /\ triage' = [triage EXCEPT !.idx = @ + 1, !.pc = "item"]
    /\ UNCHANGED <<run_vars, merge>>

\* main.py:353-381
RegenerateSave ==
    /\ triage.entry = "regenerate_failed_resolutions"
    /\ triage.pc = "save"
    /\ \E io \in {"ok", "open_error"} :
         LET output_file == output_file_of(triage.input_file, triage.args.output,
                                           triage.args.overwrite)
             metadata == update(triage.metadata,
                                [regeneration_timestamp |-> 1,
                                 total_records |-> Len(triage.results)])
             output_data == [path |-> output_file, metadata |-> metadata,
                             results |-> triage.results]
         IN  triage' = [triage EXCEPT
                 !.metadata = metadata,
                 !.written = IF io = "ok" THEN Append(@, output_data) ELSE @,
                 !.ret = IF io = "ok" THEN {output_file} ELSE None,
                 !.pc = "returned"]
    /\ UNCHANGED <<run_vars, merge>>

NextTriage ==
    \/ ProcessFileStart
    \/ ProcessFileItem
    \/ ProcessFileSleep
    \/ ProcessFileSave
    \/ RegenerateStart
    \/ RegenerateItem
    \/ RegenerateSleep
    \/ RegenerateSave

SpecTriage == InitTriage /\ [][NextTriage]_vars

\* ------------------------------------------------------- triage claims
\* the result_idx of the invoker calls of the pass, in call order
CallIndices == [k \in 1..Len(triage.calls) |-> triage.calls[k].result_idx]

IsPrefix(s, t) == Len(s) <= Len(t) /\ \A k \in 1..Len(s) : s[k] = t[k]

\* the dataset file of the repository is found by the entry point in use
DatasetLocated ==
    IF triage.entry = "process_file"
    THEN find_dataset_file(triage.fs) # None
    ELSE data_path_main(triage.fs) # None

\* the record at index i of the input file has its id in the dataset
InSource(i) == Len(rows_with_id(triage.dataset, triage.disk.results[i + 1].id)) > 0

\* the prompt of the dataset row of record i can be built
PromptBuilds(i) ==
    LET row == rows_with_id(triage.dataset, triage.disk.results[i + 1].id)[1]
    IN  ~create_prompt(row.conflict_tuple, row.commit_message).raised

\* the record at index i of the input file carries the error sentinel
SentinelMarked(i) == is_failed_resolution(triage.disk.results[i + 1])

\* the pass got as far as preparing its output (metadata.update comes
\* right before the file is opened)
ReachedSave == "regeneration_timestamp" \in DOMAIN triage.metadata

\* every result list the pass holds or has written
ResultViews ==
    {triage.results} \cup {triage.written[w].results : w \in 1..Len(triage.written)}

\* C11 (as claimed): a triage pass leaves every record without the error
\* sentinel untouched; the results keep the length and order of the input
\* and each record that is not sentinel-marked in the input is identical in
\* the output.
C11_NonSentinelUntouched ==
    triage.pc # "start" =>
        \A rs \in ResultViews :
            /\ Len(rs) = Len(triage.disk.results)
            /\ \A i \in 0..(Len(rs) - 1) :
                  ~SentinelMarked(i) => rs[i + 1] = triage.disk.results[i + 1]

\* C12 (as claimed): a pass invokes the invoker exactly once for each
\* sentinel-marked record whose id exists in the WorkItem source, in the
\* records' original order, and never for any other record.
C12_OneCallPerSentinelRecordInSource ==
    triage.pc = "returned" =>
        CallIndices = SelectSeq(Indices(Len(triage.disk.results)),
                          LAMBDA i : SentinelMarked(i) /\ DatasetLocated /\ InSource(i))

\* C12 (amended): a pass that locates its dataset file invokes the invoker
\* exactly once for each record it selected whose id exists in the dataset
\* and whose prompt can be built, in the records' original order, and never
\* for any other record; a pass that does not locate it makes no call.
C12_OneCallPerSelectedRecordWithPrompt ==
    LET attempted == SelectSeq(triage.failed_indices,
                         LAMBDA i : DatasetLocated /\ InSource(i) /\ PromptBuilds(i))
    IN  /\ triage.pc # "start" => IsPrefix(CallIndices, attempted)
        /\ triage.pc \in {"save", "returned"} => CallIndices = attempted

C12_Witness ==
    /\ triage.pc = "returned"
    /\ triage.entry = "process_file"
    /\ Len(triage.calls) = 1
    /\ Len(triage.failed_indices) = 2
    /\ \E k \in 1..2 : LET i == triage.failed_indices[k]
                       IN  InSource(i) /\ ~PromptBuilds(i)

\* C13: when a retry fails again (the invoker raises), the record keeps
\* exactly the text it had in the input, in the results held and in every
\* file written, and no record is attempted twice in the same pass.
C13_RenewedFailureKeepsText ==
    /\ \A k \in 1..Len(triage.calls) :
          triage.calls[k].raised =>
              \A rs \in ResultViews :
                  rs[triage.calls[k].result_idx + 1].conflict_resolution
                      = triage.disk.results[triage.calls[k].result_idx + 1].conflict_resolution
    /\ \A j, k \in 1..Len(triage.calls) :
          triage.calls[j].result_idx = triage.calls[k].result_idx => j = k

C13_Witness ==
    /\ triage.pc = "returned"
    /\ Len(triage.written) = 1
    /\ Len(triage.calls) = 2
    /\ triage.calls[1].raised
    /\ ~triage.calls[2].raised

\* C14 (as claimed): the metadata of every output file a triage entry point
\* writes contains regenerated_count, equal to the number of records whose
\* conflict_resolution was overwritten in the pass.
C14_RegeneratedCountWritten ==
    \A w \in 1..Len(triage.written) :
        /\ "regenerated_count" \in DOMAIN triage.written[w].metadata
        /\ triage.written[w].metadata.regenerated_count
              = Cardinality({k \in 1..Len(triage.calls) : ~triage.calls[k].raised})

\* C15 (as claimed): triage on a file with no sentinel-marked record makes
\* no invoker call, writes no file and returns the input path unchanged.
C15_NoSentinelIsNoOp ==
    (/\ triage.pc = "returned"
     /\ \A i \in 0..(Len(triage.disk.results) - 1) : ~SentinelMarked(i))
    => /\ triage.calls = <<>>
       /\ triage.written = <<>>
       /\ triage.ret = {triage.input_file}

\* C16 (as claimed): both entry points select a record for retry if and
\* only if its conflict_resolution is a string starting with 'Erro ao gerar'.
C16_SelectedIffSentinelPrefix ==
    triage.pc # "start" =>
        triage.failed_indices
            = SelectSeq(Indices(Len(triage.disk.results)), SentinelMarked)

\* C17 (as claimed): when a selected record's id is absent from the dataset,
\* or the dataset file cannot be located, no invoker call is made for that
\* record, the record is left unchanged, and the pass still attempts the
\* remaining selected records and prepares its output.
C17_GapSkipsOnlyTheItem ==
    triage.pc = "returned" =>
        \A k \in 1..Len(triage.failed_indices) :
            LET i == triage.failed_indices[k]
            IN  (~DatasetLocated \/ ~InSource(i)) =>
                   /\ \A c \in 1..Len(triage.calls) : triage.calls[c].result_idx # i
                   /\ \A rs \in ResultViews : rs[i + 1] = triage.disk.results[i + 1]
                   /\ ReachedSave

\* C17 (amended): a selected record whose id is absent from a located
\* dataset is skipped alone: no invoker call is made for it, it is left
\* unchanged, every other selected record in the dataset whose prompt can be
\* built is attempted, and the pass goes on to prepare its output. When the
\* dataset file cannot be located the pass ends at once: no invoker call, no
\* file written, nothing returned.
C17_AbsentIdSkippedMissingDatasetEndsPass ==
    triage.pc = "returned" /\ triage.failed_indices # <<>> =>
        IF DatasetLocated
        THEN /\ ReachedSave
             /\ \A k \in 1..Len(triage.failed_indices) :
                   LET i == triage.failed_indices[k]
                   IN  IF InSource(i)
                       THEN PromptBuilds(i) =>
                               \E c \in 1..Len(triage.calls) : triage.calls[c].result_idx = i
                       ELSE /\ \A c \in 1..Len(triage.calls) : triage.calls[c].result_idx # i
                            /\ \A rs \in ResultViews : rs[i + 1] = triage.disk.results[i + 1]
        ELSE /\ triage.calls = <<>>
             /\ triage.written = <<>>
             /\ triage.results = triage.disk.results
             /\ ~ReachedSave
             /\ triage.ret = None

C17_Witness ==
    /\ triage.pc = "returned"
    /\ triage.entry = "process_file"
    /\ DatasetLocated
    /\ Len(triage.failed_indices) = 2
    /\ ~InSource(triage.failed_indices[1])
    /\ Len(triage.calls) = 1
    /\ triage.calls[1].result_idx = triage.failed_indices[2]
    /\ Len(triage.written) = 1

\* ================================================================= merge
\* data_processing/merge_dataset.py: merge_datasets(dataset1_path,
\* dataset2_path, output_path). A dataset is a results file [metadata,
\* results]; the records of dataset1 hold the text "merged_a", those of
\* dataset2 "merged_b", which tells them apart in the merged results.

MaxMergeResults == 2

\* float('inf')
Inf == 1000000

Max(a, b) == IF a >= b THEN a ELSE b

\* the ids of stored records: null (what to_json makes of NaN) or an integer
MergeIds == {NaN, {IdOf(0)}, {IdOf(1)}}

MergeResults(text) ==
    UNION {[1..n -> {[id |-> i, commit_sha |-> {ShaOf(0)},
                      conflict_resolution |-> {text}] : i \in MergeIds}] :
              n \in 0..MaxMergeResults}

MergeModels == {<<"qwen", "Qwen-2.5-Coder-32B">>, <<"meta", "Llama-3">>}

\* a file written by save_checkpoint, or such a file whose metadata has no
\* last_processed_index (lpi = None)
MergeFile(model, lpi, rs) ==
    [metadata |-> update([provider |-> "groq", model |-> model, timestamp |-> 0,
                          total_records |-> Len(rs), is_checkpoint |-> FALSE],
                         IF lpi = None THEN <<>>
                         ELSE [last_processed_index |-> CHOOSE v \in lpi : TRUE]),
     results |-> rs]

\* merge_dataset.py:35-36: min(result["id"] for result in results) if
\* results else float('inf'). min of one element compares nothing; with two
\* or more a null id makes `<` raise TypeError.
min_id(results) ==
    IF Len(results) = 0 THEN [raised |-> FALSE, null |-> FALSE, v |-> Inf]
    ELSE IF Len(results) = 1
    THEN IF results[1].id = NaN
         THEN [raised |-> FALSE, null |-> TRUE, v |-> 0]
         ELSE [raised |-> FALSE, null |-> FALSE, v |-> CHOOSE n \in results[1].id : TRUE]
    ELSE IF \E k \in 1..Len(results) : results[k].id = NaN
    THEN [raised |-> TRUE, null |-> FALSE, v |-> 0]
    ELSE [raised |-> FALSE, null |-> FALSE,
          v |-> CHOOSE n \in UNION {results[k].id : k \in 1..Len(results)} :
                   \A k \in 1..Len(results) : \A m \in results[k].id : n <= m]

\* the comparison that finds no two models different
models_differ_never(data1, data2) == FALSE

\* merge_dataset.py:30: the models of the two datasets differ
models_differ(data1, data2) == data1.metadata.model # data2.metadata.model

\* the merge putting dataset1 first whatever the ids
arrange_data1_first(data1, data2) ==
    [raised |-> FALSE, first |-> data1, second |-> data2]

\* the merge putting dataset2 first when the minimum ids are equal
arrange_strict(data1, data2) ==
    LET min_id1 == min_id(data1.results)
        min_id2 == min_id(data2.results)
    IN  IF min_id1.raised \/ min_id2.raised \/ min_id1.null \/ min_id2.null
        THEN [raised |-> TRUE, first |-> data1, second |-> data2]
        ELSE [raised |-> FALSE,
              first |-> IF min_id1.v < min_id2.v THEN data1 ELSE data2,
              second |-> IF min_id1.v < min_id2.v THEN data2 ELSE data1]

\* merge_dataset.py:35-40: min_id1 <= min_id2 raises TypeError when one of
\* them is None
arrange(data1, data2) ==
    LET min_id1 == min_id(data1.results)
        min_id2 == min_id(data2.results)
    IN  IF min_id1.raised \/ min_id2.raised \/ min_id1.null \/ min_id2.null
        THEN [raised |-> TRUE, first |-> data1, second |-> data2]
        ELSE [raised |-> FALSE,
              first |-> IF min_id1.v <= min_id2.v THEN data1 ELSE data2,
              second |-> IF min_id1.v <= min_id2.v THEN data2 ELSE data1]

\* merge_dataset.py:42-58
merged_data_of(first_dataset, second_dataset, now) ==
    [metadata |->
        update([provider |-> first_dataset.metadata.provider,
                model |-> first_dataset.metadata.model,
                timestamp |-> now,
                total_records |-> Len(first_dataset.results) + Len(second_dataset.results),
                is_checkpoint |-> FALSE],
               IF "last_processed_index" \in DOMAIN first_dataset.metadata
               THEN [last_processed_index |->
                        Max(first_dataset.metadata.last_processed_index,
                            IF "last_processed_index" \in DOMAIN second_dataset.metadata
                            THEN second_dataset.metadata.last_processed_index
                            ELSE 0)]
               ELSE <<>>),
     results |-> first_dataset.results \o second_dataset.results]

\* the file at output_path before the call: none, or an earlier merge
OldOutput == MergeFile(<<"qwen", "Qwen-2.5-Coder-32B">>, None, <<>>)

\* merge_datasets has been called on two readable JSON files; call counts
\* the calls made on them and earlier holds the outcome of the first one
InitMerge ==
    /\ RunIdle
    /\ triage = None
    /\ merge \in
         {[data1 |-> MergeFile(m1, l1, r1), data2 |-> MergeFile(m2, l2, r2),
           before |-> out, output |-> out, pc |-> "start", raised |-> "none",
           writes |-> 0, call |-> 1, earlier |-> None] :
            m1 \in MergeModels, m2 \in MergeModels,
            l1 \in {None, {1}, {4}}, l2 \in {None, {2}},
            r1 \in MergeResults(<<"merged_a">>), r2 \in MergeResults(<<"merged_b">>),
            out \in {None, {OldOutput}}}

\* merge_dataset.py:16-32
MergeCheckModel ==
    /\ merge.pc = "start"
    /\ merge' = [merge EXCEPT
                    !.pc = IF models_differ(merge.data1, merge.data2)
                           THEN "returned" ELSE "arrange"]
    /\ UNCHANGED <<run_vars, triage>>

\* merge_dataset.py:34-66; the exceptions of min, <=, os.makedirs and open
\* leave merge_datasets
MergeWrite ==
    /\ merge.pc = "arrange"
    /\ \E io \in IoOutcomes :
         LET a == arrange(merge.data1, merge.data2)
         IN  IF a.raised
             THEN merge' = [merge EXCEPT !.pc = "raised", !.raised = "TypeError"]
             ELSE IF io # "ok"
             THEN merge' = [merge EXCEPT !.pc = "raised", !.raised = "OSError"]
             ELSE merge' = [merge EXCEPT
                               !.pc = "returned",
                               !.output = {merged_data_of(a.first, a.second, 1)},
                               !.writes = @ + 1]
    /\ UNCHANGED <<run_vars, triage>>

\* merge_dataset.py:69-77: the tool is run once more on the same two files,
\* the two positional arguments exchanged, with an output path that holds
\* what the first one held before
MergeExchanged ==
    /\ merge.pc \in {"returned", "raised"}
    /\ merge.call = 1
    /\ merge' = [merge EXCEPT
                    !.call = 2,
                    !.earlier = {[pc |-> merge.pc, output |-> merge.output,
                                  raised |-> merge.raised]},
                    !.data1 = merge.data2,
                    !.data2 = merge.data1,
                    !.output = merge.before,
                    !.pc = "start",
                    !.raised = "none",
                    !.writes = 0]
    /\ UNCHANGED <<run_vars, triage>>

NextMerge ==
    \/ MergeCheckModel
    \/ MergeWrite
    \/ MergeExchanged

SpecMerge == InitMerge /\ [][NextMerge]_vars

\* -------------------------------------------------------- merge claims
SameModel == merge.data1.metadata.model = merge.data2.metadata.model

\* the file at output_path
MergedFile == CHOOSE f \in merge.output : TRUE

\* every record of rs has an integer id
IntegerIds(rs) == \A k \in 1..Len(rs) : rs[k].id # NaN

\* the ids of the records of rs
IdsIn(rs) == UNION {rs[k].id : k \in 1..Len(rs)}

\* rs is not empty and every id of other is larger than some id of rs
SmallerMinId(rs, other) ==
    /\ rs # <<>>
    /\ other # <<>>
    /\ \E n \in IdsIn(rs) : \A m \in IdsIn(other) : n < m

\* the last_processed_index values present in the two inputs
PresentLpi ==
    {d.metadata.last_processed_index :
        d \in {x \in {merge.data1, merge.data2} :
                  "last_processed_index" \in DOMAIN x.metadata}}

\* C18: merge_datasets on two files whose metadata.model differ ends without
\* writing: the file at the output path is what it was before the call.
C18_ModelMismatchWritesNothing ==
    ~SameModel =>
        /\ merge.pc \in {"start", "returned"}
        /\ merge.writes = 0
        /\ merge.output = merge.before
        /\ merge.raised = "none"

C18_Witness ==
    /\ ~SameModel
    /\ merge.pc = "returned"
    /\ merge.before = {OldOutput}
    /\ merge.data1.results # <<>>
    /\ merge.data2.results # <<>>

\* C19: for two files of the same model, the merged results are the
\* concatenation of the two result sequences, the file with the smaller
\* minimum id first and each sequence in its own order, and total_records is
\* the sum of the two result counts and the length of the merged results.
\* The merge produces that file whenever every record has an integer id and
\* the output can be written.
C19_ConcatenationBySmallerMinId ==
    LET r1 == merge.data1.results
        r2 == merge.data2.results
    IN  /\ (merge.pc = "returned" /\ SameModel) =>
              /\ merge.writes = 1
              /\ MergedFile.results \in {r1 \o r2, r2 \o r1}
              /\ SmallerMinId(r1, r2) => MergedFile.results = r1 \o r2
              /\ SmallerMinId(r2, r1) => MergedFile.results = r2 \o r1
              /\ MergedFile.metadata.total_records = Len(r1) + Len(r2)
              /\ MergedFile.metadata.total_records = Len(MergedFile.results)
        /\ (SameModel /\ IntegerIds(r1) /\ IntegerIds(r2)) => merge.raised # "TypeError"

C19_Witness ==
    /\ merge.pc = "returned"
    /\ SameModel
    /\ Len(merge.data1.results) = 2
    /\ Len(merge.data2.results) = 2
    /\ SmallerMinId(merge.data2.results, merge.data1.results)
    /\ MergedFile.results = merge.data2.results \o merge.data1.results

\* C20 (as claimed): in the merged file last_processed_index is present
\* whenever the metadata of at least one input has it, and its value is the
\* maximum of the values present.
C20_LastProcessedIndexIsMaxOfPresent ==
    (merge.pc = "returned" /\ SameModel /\ PresentLpi # {}) =>
        /\ "last_processed_index" \in DOMAIN MergedFile.metadata
        /\ MergedFile.metadata.last_processed_index \in PresentLpi
        /\ \A v \in PresentLpi : v <= MergedFile.metadata.last_processed_index

\* ================================================= batch runner, part 2
\* the collection indices of the invoker calls of the run, in call order
InvokedIndices == [k \in 1..Len(invoked) |-> invoked[k].index]

\* the indices from lo to hi - 1, ascending
Range(lo, hi) == [k \in 1..(IF hi > lo THEN hi - lo ELSE 0) |-> lo + k - 1]

\* the attempt window of the run, written out: [start_index,
\* min(start_index + max_requests, len(df)))
AttemptLo == start_index
AttemptHi == IF start_index + max_requests <= Len(df)
             THEN start_index + max_requests ELSE Len(df)

\* the prompt of item i can be built
WellFormed(i) == df[i + 1].conflict_tuple = "dict"

\* process_data returned without having caught anything
completed == returned /\ caught = "none"

\* C21 (as claimed): in one run of process_data that comes to its end the
\* items for which the invoker is called are exactly the indices of
\* [start_index, min(start_index + max_requests, len(df))), each once and in
\* ascending order.
C21_InvokedExactlyTheWindow ==
    completed => InvokedIndices = Range(AttemptLo, AttemptHi)

\* C21 (amended): in every run the invoker calls go to indices of the
\* window, in strictly ascending order (so never twice, never by two
\* batches, never at or beyond the collection length); in a run that comes
\* to its end without an exception the items given a record are exactly the
\* window in ascending order, and the invoker has been called exactly for
\* those of them whose prompt could be built.
C21_WindowAttemptedInOrder ==
    /\ \A k \in 1..Len(invoked) :
          /\ AttemptLo <= invoked[k].index
          /\ invoked[k].index < AttemptHi
          /\ k > 1 => invoked[k - 1].index < invoked[k].index
    /\ completed =>
          /\ InvokedIndices = SelectSeq(Range(AttemptLo, AttemptHi), WellFormed)
          /\ Len(result_df.rows) = Len(Range(AttemptLo, AttemptHi))
          /\ \A k \in 1..Len(result_df.rows) :
                result_df.rows[k].commit_sha = {df[AttemptLo + k].commit_sha}

C21_Witness ==
    /\ completed
    /\ checkpoint_interval = 2
    /\ AttemptHi - AttemptLo = 3
    /\ Len(invoked) = 2
    /\ ~WellFormed(AttemptLo + 1)

\* a step of process_data past the checkpoint of a batch (main.py:184-197)
\* that is not an interruption
CheckpointStep ==
    /\ pc = "checkpoint"
    /\ pc' # "checkpoint"
    /\ caught' # "KeyboardInterrupt"

\* f holds every record accumulated from the start of the run up to the
\* batch that ended at current_index, and counts them
Cumulative(f) ==
    /\ f.metadata.is_checkpoint
    /\ Len(f.results) = (IF current_index <= Len(df) THEN current_index ELSE Len(df))
                           - start_index
    /\ \A k \in 1..Len(f.results) :
          f.results[k].commit_sha = {df[start_index + k].commit_sha}
    /\ f.metadata.total_records = Len(f.results)

\* C22 (as claimed): after each batch completes exactly one intermediate
\* checkpoint is written, and it is cumulative: its results are all records
\* accumulated from the start of the run up to and including that batch and
\* its total_records is the number of records in its results.
C22_OneCumulativeCheckpointPerBatch ==
    [][CheckpointStep =>
          /\ Len(files') = Len(files) + 1
          /\ Cumulative(files'[Len(files')])]_vars

\* C22 (amended): after each batch the run writes at most one intermediate
\* checkpoint; it writes exactly one when records have been accumulated and
\* save_checkpoint returns a path, none when the save fails (returns None or
\* raises) or nothing has been accumulated; the checkpoint written is
\* cumulative and its total_records is the number of records in its results.
C22_OneCumulativeCheckpointUnlessSaveFails ==
    [][CheckpointStep =>
          /\ Len(files') \in {Len(files), Len(files) + 1}
          /\ SubSeq(files', 1, Len(files)) = files
          /\ Len(files') = Len(files) + 1
                <=> (~empty(result_df) /\ pc' # "after_loop"
                     /\ checkpoint_path' # None)
          /\ Len(files') = Len(files) + 1 =>
                /\ Cumulative(files'[Len(files')])
                /\ checkpoint_path' = {files'[Len(files')].path}]_vars

\* two batches, two checkpoints, the second holding the records of both
C22_Witness ==
    /\ pc = "batch_sleep"
    /\ Len(files) = 2
    /\ Len(files[1].results) = 1
    /\ Len(files[2].results) = 2
    /\ files[2].metadata.total_records = 2

\* C23 (as claimed): in every file written by a run, intermediate checkpoint
\* or final file, metadata.last_processed_index is the collection index of
\* the item that produced the last record of the file's results.
C23_LastProcessedIndexIsLastRecordsItem ==
    \A i \in 1..Len(files) :
        files[i].results # <<>> =>
            /\ files[i].results[Len(files[i].results)].commit_sha
                  = {df[start_index + Len(files[i].results)].commit_sha}
            /\ files[i].metadata.last_processed_index
                  = start_index + Len(files[i].results) - 1

\* C24: between any two consecutive invoker calls of one run a delay wait
\* occurs (time.sleep after the item inside a batch, or after the checkpoint
\* between two batches): whenever an item is about to be processed after an
\* earlier invoker call, time.sleep has been called since the last item.
\* And no delay wait follows the last item of the last batch: a run that was
\* not interrupted returns without a sleep after its last item.
C24_DelayBetweenCallsNoneAfterLast ==
    /\ (pc = "item" /\ invoked # <<>>) => slept
    /\ (returned /\ caught # "KeyboardInterrupt") => ~slept

\* three calls: a wait inside the first batch and one between the batches
C24_Witness ==
    /\ completed
    /\ checkpoint_interval = 2
    /\ Len(invoked) = 3
    /\ Len(files) >= 1
    /\ ~slept

\* the returned result set has the record of collection index i
HasRecord(i) ==
    /\ i < Len(df)
    /\ i - start_index + 1 \in 1..Len(result_df.rows)
    /\ result_df.rows[i - start_index + 1].commit_sha = {df[i + 1].commit_sha}

\* C25 (as claimed): when process_data returns, normally, after an
\* interruption or after a loop-machinery exception, every collection index
\* in [start_index, last_processed_index] has a record in the returned
\* result set (an empty window and an interruption during the first batch
\* included).
C25_EveryIndexUpToLastProcessedHasRecord ==
    returned => \A i \in start_index..last_processed_index : HasRecord(i)

\* ------------------------------------------------- merge, argument order
\* the outcome of the first of the two calls, and the file it wrote
Earlier == CHOOSE e \in merge.earlier : TRUE
EarlierFile == CHOOSE f \in Earlier.output : TRUE

\* both calls, merge(A, B) and then merge(B, A), wrote their merged file
BothReturned ==
    /\ merge.call = 2
    /\ merge.pc = "returned"
    /\ SameModel
    /\ Earlier.pc = "returned"

\* neither sequence is empty and their minimum ids are equal
EqualMinIds(r1, r2) ==
    /\ r1 # <<>>
    /\ r2 # <<>>
    /\ ~SmallerMinId(r1, r2)
    /\ ~SmallerMinId(r2, r1)

\* C27 (as claimed): for two same-model files merge(A, B) and merge(B, A)
\* produce the same results sequence and the same total_records, equal
\* minimum ids and an empty results list included.
C27_ArgumentOrderIrrelevant ==
    BothReturned =>
        /\ MergedFile.results = EarlierFile.results
        /\ MergedFile.metadata.total_records = EarlierFile.metadata.total_records

\* C27 (amended): merge(A, B) and merge(B, A) produce the same
\* total_records, and the same results sequence when the minimum ids of the
\* two files differ or one of them has no results; when both have results
\* and the minimum ids are equal each call puts its own first argument
\* first.
C27_ArgumentOrderIrrelevantUnlessTie ==
    LET r1 == merge.data1.results
        r2 == merge.data2.results
    IN  BothReturned =>
            /\ MergedFile.metadata.total_records = EarlierFile.metadata.total_records
            /\ ~EqualMinIds(r1, r2) => MergedFile.results = EarlierFile.results
            /\ EqualMinIds(r1, r2) =>
                   /\ MergedFile.results = r1 \o r2
                   /\ EarlierFile.results = r2 \o r1

C27_Witness ==
    /\ BothReturned
    /\ EqualMinIds(merge.data1.results, merge.data2.results)
    /\ Len(merge.data1.results) = 2
    /\ MergedFile.results # EarlierFile.results
    /\ MergedFile.metadata.total_records = 3

\* ---------------------------------------------------------- termination
\* the steps of the program itself: main runs on one thread and every call
\* it makes returns or raises, so a step that can be taken is taken. The
\* operator's KeyboardInterrupt and the clock are under no such obligation.
ProgramStep ==
    \/ LoopTest
    \/ Item
    \/ ItemSleep
    \/ PdReturn
    \/ Concat
    \/ Checkpoint
    \/ BatchSleep
    \/ DrainCheck
    \/ AfterLoop
    \/ SaveResults

FairSpec == Spec /\ WF_vars(ProgramStep)

\* C26 (as claimed): process_data terminates for every finite collection and
\* every start_index >= 0, max_requests >= 0 and checkpoint_interval >= 0,
\* every invoker call returning or raising.
C26_ProcessDataTerminates == <>returned

====
